---- MODULE Spec2Model ----
(***************************************************************************)
(* The interview session / response / feedback lifecycle of the mock       *)
(* interview application: the persisted store (interviews, questions,      *)
(* responses, feedback), the server actions that write it, and the         *)
(* InterviewSession component that drives them.                            *)
(*                                                                         *)
(* Every storage write and every media upload can be rejected by the       *)
(* storage service: each action draws the outcome of each write it issues  *)
(* with \E.  Reads are reliable.  An action is one stretch of a handler    *)
(* between two awaits of the session component; the tabs, the textarea and *)
(* the recorders stay usable while a step is in flight; the two buttons    *)
(* are disabled by isSubmitting.                                           *)
(***************************************************************************)
EXTENDS Integers, Sequences, FiniteSets, TLC

\* ------------------------------------------------------------------ bounds
\* Questions generateInterviewQuestions returns for an interview.  The
\* catalogue of src/lib/gemini.ts is scaled down: the source returns 5 to 7.
NumQuestions == 2
\* Storage operations (writes and uploads) that fail in one run.
MaxFaults == 1
\* Values Math.random() is drawn from in shuffleArray: k / RandomLevels for
\* k in 0 .. RandomLevels - 1.
RandomLevels == 2

\* --------------------------------------------------------------- constants
NULL == "null"
\* The run follows one interview: the ids the store can give to interview rows.
InterviewIds == {1}
ResponseTypes == {"text", "video", "audio"}
\* Non-empty answers the user can type.
Texts == {"t1", "t2"}
EmptyText == ""
Blob == "blob"
\* new Date().toISOString(): an opaque non-null timestamp.
Timestamp == "ts"

VARIABLES
  \* persisted store
  interviews,            \* set of interview rows
  questions,             \* set of question rows
  responses,             \* set of response rows
  feedback,              \* set of feedback rows
  createResult,          \* what the last createInterviewWithQuestions returned
  \* InterviewSession component
  pc,                    \* "closed", "idle", or the await the step is parked at
  interview,             \* prop: id of the interview of the session
  sessionQuestions,      \* prop: the question rows, in order_number order
  currentQuestionIndex,
  responseType,
  textResponse,
  videoBlob,
  audioBlob,
  isSubmitting,
  isCompleted,
  feedbackLoading,
  toast,                 \* the notification the current step has shown last
  call,                  \* locals of the step in flight
  lastCall,              \* what the last server action returned to the session
  faults,                \* storage operations that have failed so far
  \* parts of the program followed on their own
  generated,             \* a call of generateInterviewQuestions and what it returned
  scored,                \* the results page: the feedback it was given and its score
  serverCalls,           \* server actions called from outside one session
  \* WebcamRecorder / AudioRecorder of the tab shown
  recorder

storeVars == <<interviews, questions, responses, feedback, createResult>>
answerVars == <<textResponse, videoBlob, audioBlob>>
propVars == <<interview, sessionQuestions>>
uiVars == <<currentQuestionIndex, responseType, textResponse, videoBlob, audioBlob,
            isSubmitting, isCompleted, feedbackLoading>>
vars == <<interviews, questions, responses, feedback, createResult, pc, interview,
          sessionQuestions, currentQuestionIndex, responseType, textResponse,
          videoBlob, audioBlob, isSubmitting, isCompleted, feedbackLoading, toast,
          call, lastCall, faults, generated, scored, serverCalls, recorder>>
sideVars == <<generated, scored, serverCalls>>
sessionVars == <<pc, interview, sessionQuestions, currentQuestionIndex, responseType,
                 textResponse, videoBlob, audioBlob, isSubmitting, isCompleted,
                 feedbackLoading, toast, call, lastCall, recorder>>
\* What the recorders leave alone (they hand their blob to the session).
recorderFrame == <<storeVars, pc, propVars, currentQuestionIndex, responseType,
                   textResponse, isSubmitting, isCompleted, feedbackLoading, toast, call,
                   lastCall, faults, sideVars>>

\* ----------------------------------------------------------------- helpers
\* No row id (ids are positive).
NoId == 0

NoCall ==
  [index |-> 0, questionId |-> NoId, responseType |-> "text", responseText |-> NULL,
   mediaUrl |-> NULL, responseId |-> NoId, writeFailed |-> FALSE]

\* A server action's result as the session sees it (op, success), with what the
\* action did to the store: whether a write it issued failed, and the write of the
\* feedback row it made.
NoResult == [op |-> "none", success |-> TRUE, writeFailed |-> FALSE, feedbackWrite |-> "none"]

NoCreate == [called |-> FALSE, success |-> FALSE, interviewId |-> NoId]

\* generateInterviewQuestions has not been called.
NotGenerated ==
  [called |-> FALSE, jobRole |-> "", industry |-> NULL, difficulty |-> NULL,
   count |-> 0, threw |-> FALSE, questions |-> <<>>]

\* The results page has not been rendered.
NotScored == [called |-> FALSE, questions |-> <<>>, score |-> [num |-> 0, den |-> 1]]

\* The clients that call server actions directly, and a call not made yet.
Callers == {"a", "b"}

NoServerCall ==
  [op |-> "none", at |-> "idle", id |-> NoId, responseType |-> "text",
   responseText |-> NULL, mediaUrl |-> NULL, existing |-> {}, responseId |-> NoId,
   success |-> FALSE, wrote |-> FALSE]

NoServerCalls == [c \in Callers |-> NoServerCall]

\* .eq(column, value).single(): the data is the row when exactly one row matches,
\* and null otherwise.  Here the set holding that row, or the empty set.
Single(rows) == IF Cardinality(rows) = 1 THEN rows ELSE {}

InterviewRow(i) == Single({r \in interviews : r.id = i})

\* The question rows of interview i, by order_number.
QuestionsOf(i) ==
  LET qs == {q \in questions : q.interview_id = i}
  IN  [n \in 1..Cardinality(qs) |-> CHOOSE q \in qs : q.order_number = n]

ResponsesOf(q) == {r \in responses : r.question_id = q}
FeedbackOf(r) == {f \in feedback : f.response_id = r}

\* ------------------------------------------------------------ src/lib/gemini
\* generateInterviewQuestions: the list it returns, here by position only.
generateInterviewQuestions == [n \in 1..NumQuestions |-> n]

\* A question text is the sequence of its words.
baseQuestions(jobRole, industry) ==
  << [question_text |-> <<"Tell", "me", "about", "your", "experience", "as", "a",
                          jobRole, ".">>,
      question_type |-> "behavioral"],
     [question_text |-> <<"What", "are", "the", "key", "skills", "required", "for", "a",
                          jobRole, "position?">>,
      question_type |-> "general"],
     [question_text |-> <<"Describe", "a", "challenging", "situation", "you", "faced",
                          "in", "your", "previous", "role.">>,
      question_type |-> "behavioral"],
     [question_text |-> <<"How", "do", "you", "stay", "updated", "with", "the", "latest",
                          "trends", "in",
                          IF industry \notin {NULL, EmptyText} THEN industry
                          ELSE "your field", "?">>,
      question_type |-> "general"],
     [question_text |-> <<"Where", "do", "you", "see", "yourself", "in", "5", "years?">>,
      question_type |-> "general"] >>

\* The keys of roleSpecificQuestions the model follows (two of the eight).
CatalogueRoles == {"Software Engineer", "UX Designer"}

\* Names every object inherits from Object.prototype: roleSpecificQuestions[name]
\* is then a function of the runtime, which is truthy and not iterable.
InheritedNames == {"constructor"}

roleSpecificQuestions(jobRole) ==
  IF jobRole = "Software Engineer"
  THEN << [question_text |-> <<"Explain", "the", "difference", "between", "a", "stack",
                               "and", "a", "queue.", "When", "would", "you", "use",
                               "each?">>,
           question_type |-> "technical"],
          [question_text |-> <<"How", "would", "you", "optimize", "a", "slow-loading",
                               "web", "application?">>,
           question_type |-> "technical"],
          [question_text |-> <<"Describe", "a", "time", "when", "you", "had", "to",
                               "refactor", "a", "large", "codebase.", "What", "approach",
                               "did", "you", "take?">>,
           question_type |-> "behavioral"],
          [question_text |-> <<"How", "do", "you", "ensure", "your", "code", "is",
                               "maintainable", "and", "readable", "for", "other",
                               "developers?">>,
           question_type |-> "situational"] >>
  ELSE IF jobRole = "UX Designer"
  THEN << [question_text |-> <<"Walk", "me", "through", "your", "design", "process",
                               "from", "research", "to", "implementation.">>,
           question_type |-> "technical"],
          [question_text |-> <<"How", "do", "you", "incorporate", "user", "feedback",
                               "into", "your", "designs?">>,
           question_type |-> "situational"],
          [question_text |-> <<"Describe", "a", "time", "when", "you", "had", "to",
                               "defend", "a", "design", "decision", "to",
                               "stakeholders.">>,
           question_type |-> "behavioral"],
          [question_text |-> <<"How", "do", "you", "balance", "aesthetic", "design",
                               "with", "usability?">>,
           question_type |-> "situational"] >>
  ELSE <<>>

\* The words of the catalogue the patterns of the difficulty rewrite match
\* (case-insensitively), by the pattern they match.
matchesPattern(word, patterns) ==
  \/ "how" \in patterns /\ word \in {"How", "how"}
  \/ "explain" \in patterns /\ word \in {"Explain", "explain"}
  \/ "describe" \in patterns /\ word \in {"Describe", "describe"}

\* String.prototype.replace with a regular expression without the g flag: the
\* first match is replaced.
RECURSIVE replaceFirst(_, _, _)
replaceFirst(text, patterns, replacement) ==
  IF text = <<>> THEN <<>>
  ELSE IF matchesPattern(Head(text), patterns) THEN replacement \o Tail(text)
  ELSE <<Head(text)>> \o replaceFirst(Tail(text), patterns, replacement)

\* No rewrite: every question keeps its text at every difficulty.
adjustDifficultyNever(q, difficulty) == q

\* The rewrite of the technical questions for a difficulty.
adjustDifficulty(q, difficulty) ==
  IF difficulty = "advanced" /\ q.question_type = "technical"
  THEN [q EXCEPT !.question_text =
          replaceFirst(@, {"how", "explain", "describe"},
                       <<"Provide", "an", "in-depth", "explanation", "of">>)]
  ELSE IF difficulty = "beginner" /\ q.question_type = "technical"
  THEN [q EXCEPT !.question_text =
          replaceFirst(@, {"explain", "describe"}, <<"Briefly", "explain">>)]
  ELSE q

\* shuffleArray, Fisher-Yates from the last position down to the second; rnd[i]
\* is the draw of Math.random() for position i (counted from 1), in RandomLevels-ths.
RECURSIVE shuffleFrom(_, _, _)
shuffleFrom(array, i, rnd) ==
  IF i < 2 THEN array
  ELSE LET j == (rnd[i] * i) \div RandomLevels + 1
           swapped == [array EXCEPT ![i] = array[j], ![j] = array[i]]
       IN  shuffleFrom(swapped, i - 1, rnd)

shuffleArray(array, rnd) == shuffleFrom(array, Len(array), rnd)

\* The most positions shuffleArray is given: the base and the role questions.
MaxCombined == Len(baseQuestions("", NULL)) + Len(roleSpecificQuestions("Software Engineer"))

Draws == [2..MaxCombined -> 0..(RandomLevels - 1)]

\* slice(0, n)
slice(array, n) == SubSeq(array, 1, IF Len(array) < n THEN Len(array) ELSE n)

\* generateDefaultQuestions: the questions it returns, or the TypeError of the
\* spread of a role entry that is not iterable.
generateDefaultQuestions(jobRole, industry, difficulty, rnd) ==
  IF jobRole \in InheritedNames
  THEN [threw |-> TRUE, questions |-> <<>>]
  ELSE LET specificQuestions == roleSpecificQuestions(jobRole)
           combinedQuestions == baseQuestions(jobRole, industry) \o specificQuestions
           adjusted == [n \in DOMAIN combinedQuestions |->
                          adjustDifficulty(combinedQuestions[n], difficulty)]
       IN  [threw |-> FALSE, questions |-> slice(shuffleArray(adjusted, rnd), 7)]

\* generateDefaultFeedback: the canned analysis (confidence_score in tenths).
generateDefaultFeedback == [feedback_text |-> "default", confidence_score |-> 7]

analyzeResponse(question, response) == generateDefaultFeedback

\* transcribeMedia: a fixed simulated transcription.
transcribeMedia(mediaUrl) == "transcript"

\* ------------------------------------------------------- the server actions
\* completeInterview's update with the completed_at stamp left out.
completeInterviewUpdateNoStamp(row) == [row EXCEPT !.status = "completed"]

\* completeInterview's update of the interview row.
completeInterviewUpdate(row) ==
  [row EXCEPT !.status = "completed", !.completed_at = Timestamp]

\* saveResponseWithFeedback's write of the response: update the existing row in
\* place, or insert a new one.  The rows after the write, and the row's id.
upsertResponseId(existing) ==
  IF existing # {} THEN (CHOOSE r \in existing : TRUE).id
  ELSE Cardinality(responses) + 1

upsertResponse(existing, questionId, type, text, mediaUrl) ==
  IF existing # {}
  THEN {IF r \in existing
        THEN [r EXCEPT !.response_type = type, !.response_text = text,
                       !.media_url = mediaUrl]
        ELSE r : r \in responses}
  ELSE responses \cup
         {[id |-> Cardinality(responses) + 1, question_id |-> questionId,
           response_type |-> type, response_text |-> text, media_url |-> mediaUrl]}

\* analyzeAndSaveFeedback: is the media transcribed first?
needsTranscription(type, text, mediaUrl) ==
  type \in {"video", "audio"} /\ mediaUrl # NULL /\ text \in {NULL, EmptyText}

\* analyzeAndSaveFeedback's write-back of the transcription onto the response.
writeTranscription(rows, responseId, text) ==
  {IF r.id = responseId THEN [r EXCEPT !.response_text = text] ELSE r : r \in rows}

\* The feedback write without the look-up of an existing row: always an insert.
upsertFeedbackAlwaysInsert(existing, responseId, analysis) ==
  feedback \cup
    {[id |-> Cardinality(feedback) + 1, response_id |-> responseId,
      feedback_text |-> analysis.feedback_text,
      confidence_score |-> analysis.confidence_score]}

\* analyzeAndSaveFeedback's write of the feedback: update the existing row, or
\* insert a new one.
upsertFeedback(existing, responseId, analysis) ==
  IF existing # {}
  THEN {IF f \in existing
        THEN [f EXCEPT !.feedback_text = analysis.feedback_text,
                       !.confidence_score = analysis.confidence_score]
        ELSE f : f \in feedback}
  ELSE feedback \cup
         {[id |-> Cardinality(feedback) + 1, response_id |-> responseId,
           feedback_text |-> analysis.feedback_text,
           confidence_score |-> analysis.confidence_score]}

\* ------------------------------------------------- the session component
\* questions[currentQuestionIndex] is defined.
hasCurrentQuestion == currentQuestionIndex + 1 \in DOMAIN sessionQuestions

\* The Next button with the content test left out.
nextEnabledWithoutContent == ~isSubmitting

\* The Next button with the isSubmitting test left out.
nextEnabledWhileSubmitting ==
  /\ ~(responseType = "text" /\ textResponse = EmptyText)
  /\ ~(responseType = "video" /\ videoBlob = NULL)
  /\ ~(responseType = "audio" /\ audioBlob = NULL)

\* The Previous button: disabled on the first question and while submitting.
previousEnabled == ~(currentQuestionIndex = 0 \/ isSubmitting)

\* The Next button: disabled while submitting or without content for the tab.
nextEnabled ==
  /\ ~isSubmitting
  /\ ~(responseType = "text" /\ textResponse = EmptyText)
  /\ ~(responseType = "video" /\ videoBlob = NULL)
  /\ ~(responseType = "audio" /\ audioBlob = NULL)

\* The test off by one: the last question is taken to have a next one.
hasNextQuestionInclusive(index, qs) == index <= Len(qs) - 1

\* The test off by one the other way: the question before the last is taken to
\* be the last.
hasNextQuestionShort(index, qs) == index < Len(qs) - 2

\* handleNextQuestion's test: is there a question after this one?
hasNextQuestion(index, qs) == index < Len(qs) - 1

\* saveResponse: is there a blob to upload for the tab?
hasBlobToUpload ==
  \/ responseType = "video" /\ videoBlob # NULL
  \/ responseType = "audio" /\ audioBlob # NULL

\* An upload error that is not thrown: saveResponse goes on with the URL.
uploadNeverThrows(ok) == FALSE

\* saveResponse: `if (error) throw error` after the upload.
uploadThrows(ok) == ~ok

\* The public URL of the uploaded file of the answer.
publicUrl(type) == IF type = "video" THEN "video.webm" ELSE "audio.webm"

resetResponseState ==
  /\ textResponse' = EmptyText
  /\ videoBlob' = NULL
  /\ audioBlob' = NULL

\* ------------------------------------------- WebcamRecorder, AudioRecorder
\* The two components have the same state and handlers; the tab shown mounts
\* one of them.  `retry` is the phase of the pending retry of startRecording
\* (waiting for startCamera, waiting for the timer), `zombie` the phases of the
\* retries started by instances that have been unmounted since.  `startedAt`
\* is the question that was on display when the recording in progress started.
NoRecorder ==
  [mounted |-> "none", stream |-> FALSE, opening |-> FALSE, retry |-> "no",
   zombie |-> {}, isRecording |-> FALSE, startedAt |-> 0, recordedBlob |-> NULL]

\* The question on display, counted from 1.
displayedQuestion == currentQuestionIndex + 1

\* A recording during which the question on display was changed (a Blob is one
\* made while one question was on display).
MixedBlob == "blob of two questions"

\* The blob mediaRecorder.onstop builds from the chunks of a recording started
\* while question `from` was on display and stopped while `to` is.
recordedChunks(from, to) == IF from = to THEN Blob ELSE MixedBlob

\* The tracks of the stream end while the MediaRecorder is recording it: the
\* platform dispatches its stop event, or it does not.
TrackEndOutcomes(r) == IF r.isRecording THEN BOOLEAN ELSE {FALSE}

\* The unmount clean-up: stopMediaTracks; the state of the instance is gone,
\* its pending retries stay.
unmountRecorder(r) ==
  IF r.mounted = "none" THEN r
  ELSE [NoRecorder EXCEPT
          !.zombie = r.zombie \cup (IF r.retry = "no" THEN {} ELSE {r.retry})]

\* The tab shown after the session selected `type`: TabsContent unmounts the
\* recorder of the old tab and mounts that of the new one, whose mount effect
\* calls startCamera / startMicrophone.
mountRecorder(type, r) ==
  IF type \in {"video", "audio"}
  THEN [unmountRecorder(r) EXCEPT !.mounted = type, !.opening = TRUE]
  ELSE unmountRecorder(r)

\* What onRecordingComplete leaves in the session's blob of `kind` when the
\* recorder is unmounted: the clean-up ends the tracks, and a stop event
\* dispatched for that hands its blob to the session after the effects of the
\* render have run.
blobAfterUnmount(kind, fires, current) ==
  IF fires /\ recorder.mounted = kind
  THEN recordedChunks(recorder.startedAt, displayedQuestion)
  ELSE current

\* The body of startRecording.
startRecordingBody(r, q) ==
  IF ~r.stream
  THEN [r EXCEPT !.retry = "camera"]
  ELSE [r EXCEPT !.retry = "no", !.isRecording = TRUE, !.startedAt = q]

\* The storage service: an operation succeeds, or fails while the run has
\* failures left; `failed` of the operations an action issued have failed.
Outcomes == IF faults < MaxFaults THEN BOOLEAN ELSE {TRUE}

countFaults(failed) == faults + failed <= MaxFaults /\ faults' = faults + failed

\* --------------------------------------------------------- specification
Init ==
  /\ interviews = {}
  /\ questions = {}
  /\ responses = {}
  /\ feedback = {}
  /\ createResult = NoCreate
  /\ pc = "closed"
  /\ interview = NoId
  /\ sessionQuestions = <<>>
  /\ currentQuestionIndex = 0
  /\ responseType = "text"
  /\ textResponse = EmptyText
  /\ videoBlob = NULL
  /\ audioBlob = NULL
  /\ isSubmitting = FALSE
  /\ isCompleted = FALSE
  /\ feedbackLoading = FALSE
  /\ toast = "none"
  /\ call = NoCall
  /\ lastCall = NoResult
  /\ faults = 0
  /\ generated = NotGenerated
  /\ scored = NotScored
  /\ serverCalls = NoServerCalls
  /\ recorder = NoRecorder

\* createInterviewWithQuestions: insert the interview row, then generate and
\* insert its questions (generateAndSaveQuestions); either insert can fail.
createInterviewWithQuestions ==
  /\ UNCHANGED sideVars
  /\ UNCHANGED recorder
  /\ Cardinality(interviews) + 1 \in InterviewIds
  /\ \E okInterview \in Outcomes, okQuestions \in Outcomes :
       LET id == Cardinality(interviews) + 1
           row == [id |-> id, status |-> "in_progress", completed_at |-> NULL]
           questionsToInsert ==
             {[id |-> Cardinality(questions) + n, interview_id |-> id,
               order_number |-> n] : n \in DOMAIN generateInterviewQuestions}
       IN  IF ~okInterview
           THEN /\ createResult' = [called |-> TRUE, success |-> FALSE, interviewId |-> NoId]
                /\ countFaults(1)
                /\ UNCHANGED <<interviews, questions>>
           ELSE /\ interviews' = interviews \cup {row}
                /\ IF okQuestions
                   THEN /\ questions' = questions \cup questionsToInsert
                        /\ createResult' = [called |-> TRUE, success |-> TRUE, interviewId |-> id]
                        /\ countFaults(0)
                   ELSE /\ questions' = questions
                        /\ createResult' = [called |-> TRUE, success |-> FALSE, interviewId |-> NoId]
                        /\ countFaults(1)
  /\ UNCHANGED <<responses, feedback, pc, propVars, uiVars, toast, call, lastCall>>

\* The status of an interview is set to abandoned from outside the session flow.
ExternalAbandon(i) ==
  /\ UNCHANGED sideVars
  /\ UNCHANGED recorder
  /\ UNCHANGED faults
  /\ \E row \in InterviewRow(i) :
       /\ row.status = "in_progress"
       /\ interviews' = (interviews \ {row}) \cup {[row EXCEPT !.status = "abandoned"]}
  /\ UNCHANGED <<questions, responses, feedback, createResult, pc, propVars, uiVars,
                 toast, call, lastCall>>

\* The session page mounts InterviewSession with the interview and its questions.
OpenSession(i) ==
  /\ UNCHANGED sideVars
  /\ UNCHANGED recorder
  /\ UNCHANGED faults
  /\ pc = "closed"
  /\ \E row \in InterviewRow(i) :
       /\ interview' = row.id
       /\ sessionQuestions' = QuestionsOf(i)
       /\ isCompleted' = (row.status = "completed")
  /\ currentQuestionIndex' = 0
  /\ responseType' = "text"
  /\ resetResponseState
  /\ isSubmitting' = FALSE
  /\ feedbackLoading' = FALSE
  /\ pc' = "idle"
  /\ toast' = "none"
  /\ UNCHANGED <<storeVars, call, lastCall>>

\* The user leaves the page between two steps: the component state is dropped.
CloseSession ==
  /\ UNCHANGED sideVars
  /\ recorder' = unmountRecorder(recorder)
  /\ UNCHANGED faults
  /\ pc = "idle"
  /\ pc' = "closed"
  /\ interview' = NoId
  /\ sessionQuestions' = <<>>
  /\ currentQuestionIndex' = 0
  /\ responseType' = "text"
  /\ resetResponseState
  /\ isSubmitting' = FALSE
  /\ isCompleted' = FALSE
  /\ feedbackLoading' = FALSE
  /\ toast' = "none"
  /\ lastCall' = NoResult
  /\ UNCHANGED <<storeVars, call>>

\* The tabs: a change of responseType re-runs the effect that resets the answer.
setResponseType(type) ==
  /\ UNCHANGED sideVars
  /\ UNCHANGED faults
  /\ pc # "closed" /\ ~isCompleted
  /\ type # responseType
  /\ responseType' = type
  /\ recorder' = mountRecorder(type, recorder)
  /\ textResponse' = EmptyText
  /\ \E fires \in TrackEndOutcomes(recorder) :
       /\ videoBlob' = blobAfterUnmount("video", fires, NULL)
       /\ audioBlob' = blobAfterUnmount("audio", fires, NULL)
  /\ UNCHANGED <<storeVars, pc, propVars, currentQuestionIndex, isSubmitting,
                 isCompleted, feedbackLoading, toast, call, lastCall>>

\* The textarea of the text tab.
setTextResponse(text) ==
  /\ UNCHANGED sideVars
  /\ UNCHANGED recorder
  /\ UNCHANGED faults
  /\ pc # "closed" /\ ~isCompleted
  /\ responseType = "text"
  /\ text # textResponse
  /\ textResponse' = text
  /\ UNCHANGED <<storeVars, pc, propVars, currentQuestionIndex, responseType, videoBlob,
                 audioBlob, isSubmitting, isCompleted, feedbackLoading, toast, call,
                 lastCall>>

\* WebcamRecorder's onRecordingComplete.
setVideoBlob ==
  /\ UNCHANGED sideVars
  /\ UNCHANGED recorder
  /\ UNCHANGED faults
  /\ pc # "closed" /\ ~isCompleted
  /\ responseType = "video"
  /\ videoBlob = NULL
  /\ videoBlob' = Blob
  /\ UNCHANGED <<storeVars, pc, propVars, currentQuestionIndex, responseType,
                 textResponse, audioBlob, isSubmitting, isCompleted, feedbackLoading,
                 toast, call, lastCall>>

\* AudioRecorder's onRecordingComplete.
setAudioBlob ==
  /\ UNCHANGED sideVars
  /\ UNCHANGED recorder
  /\ UNCHANGED faults
  /\ pc # "closed" /\ ~isCompleted
  /\ responseType = "audio"
  /\ audioBlob = NULL
  /\ audioBlob' = Blob
  /\ UNCHANGED <<storeVars, pc, propVars, currentQuestionIndex, responseType,
                 textResponse, videoBlob, isSubmitting, isCompleted, feedbackLoading,
                 toast, call, lastCall>>

handlePreviousQuestion ==
  /\ UNCHANGED sideVars
  /\ UNCHANGED recorder
  /\ UNCHANGED faults
  /\ pc # "closed" /\ ~isCompleted
  /\ previousEnabled
  /\ currentQuestionIndex > 0
  /\ currentQuestionIndex' = currentQuestionIndex - 1
  /\ resetResponseState
  /\ UNCHANGED <<storeVars, pc, propVars, responseType, isSubmitting, isCompleted,
                 feedbackLoading, toast, call, lastCall>>

\* handleNextQuestion up to its first await: the start of saveResponse.
handleNextQuestion ==
  /\ UNCHANGED sideVars
  /\ UNCHANGED recorder
  /\ UNCHANGED faults
  /\ pc # "closed" /\ ~isCompleted
  /\ nextEnabled
  /\ hasCurrentQuestion
  /\ isSubmitting' = TRUE
  /\ feedbackLoading' = TRUE
  /\ call' = [index |-> currentQuestionIndex,
              questionId |-> sessionQuestions[currentQuestionIndex + 1].id,
              responseType |-> responseType,
              responseText |-> IF responseType = "text" THEN textResponse ELSE NULL,
              mediaUrl |-> NULL, responseId |-> NoId, writeFailed |-> FALSE]
  /\ pc' = IF hasBlobToUpload THEN "upload" ELSE "save"
  /\ toast' = "none"
  /\ lastCall' = NoResult
  /\ UNCHANGED <<storeVars, propVars, currentQuestionIndex, responseType, answerVars,
                 isCompleted>>

\* saveResponse: the upload of the blob.  An upload error is thrown out of
\* saveResponse, before its try block, into handleNextQuestion's catch.
uploadMedia ==
  /\ UNCHANGED sideVars
  /\ UNCHANGED recorder
  /\ pc = "upload"
  /\ \E ok \in Outcomes :
       /\ countFaults(IF ok THEN 0 ELSE 1)
       /\ IF uploadThrows(ok)
          THEN /\ toast' = "Failed to save your response"
               /\ isSubmitting' = FALSE
               /\ pc' = "idle"
               /\ call' = NoCall
          ELSE /\ call' = [call EXCEPT !.mediaUrl = publicUrl(call.responseType)]
               /\ pc' = "save"
               /\ UNCHANGED <<toast, isSubmitting>>
  /\ UNCHANGED <<storeVars, propVars, currentQuestionIndex, responseType, answerVars,
                 isCompleted, feedbackLoading, lastCall>>

\* saveResponse after saveResponseWithFeedback has returned `result`, and the
\* rest of handleNextQuestion up to its next await.  saveResponse catches the
\* error it throws for a failed result, so handleNextQuestion goes on.
saveResponseReturns(result) ==
  /\ lastCall' = result
  /\ toast' = IF result.success THEN "Response saved" ELSE "Failed to analyze your response"
  /\ feedbackLoading' = FALSE
  /\ IF hasNextQuestion(call.index, sessionQuestions)
     THEN /\ currentQuestionIndex' = call.index + 1
          /\ resetResponseState
          /\ isSubmitting' = FALSE
          /\ pc' = "idle"
     ELSE /\ pc' = "complete"
          /\ UNCHANGED <<currentQuestionIndex, answerVars, isSubmitting>>
  /\ UNCHANGED <<propVars, responseType, isCompleted>>

\* saveResponseWithFeedback up to its call of analyzeAndSaveFeedback: the upsert
\* of the response.  The update's error is not looked at; the insert's is thrown.
saveResponseWithFeedback ==
  /\ UNCHANGED sideVars
  /\ UNCHANGED recorder
  /\ pc = "save"
  /\ LET existingResponse == Single(ResponsesOf(call.questionId))
     IN  \E ok \in Outcomes :
           /\ countFaults(IF ok THEN 0 ELSE 1)
           /\ IF existingResponse = {} /\ ~ok
              THEN /\ saveResponseReturns([op |-> "saveResponseWithFeedback",
                                           success |-> FALSE, writeFailed |-> TRUE,
                                           feedbackWrite |-> "none"])
                   /\ call' = IF hasNextQuestion(call.index, sessionQuestions)
                              THEN NoCall ELSE call
                   /\ UNCHANGED responses
              ELSE /\ responses' =
                        IF ok
                        THEN upsertResponse(existingResponse, call.questionId,
                                            call.responseType, call.responseText,
                                            call.mediaUrl)
                        ELSE responses
                   /\ call' = [call EXCEPT
                                 !.responseId = upsertResponseId(existingResponse),
                                 !.writeFailed = ~ok]
                   /\ pc' = "analyze"
                   /\ UNCHANGED <<propVars, uiVars, toast, lastCall>>
  /\ UNCHANGED <<interviews, questions, feedback, createResult>>

\* analyzeAndSaveFeedback, and saveResponseWithFeedback's return of its result.
\* The write-back's error is not looked at; the feedback write's is thrown.
analyzeAndSaveFeedback ==
  /\ UNCHANGED sideVars
  /\ UNCHANGED recorder
  /\ pc = "analyze"
  /\ LET transcribe == needsTranscription(call.responseType, call.responseText,
                                          call.mediaUrl)
         textToAnalyze == IF transcribe THEN transcribeMedia(call.mediaUrl)
                          ELSE call.responseText
         hasText == textToAnalyze \notin {NULL, EmptyText}
         existingFeedback == Single(FeedbackOf(call.responseId))
         analysis == analyzeResponse(call.questionId, textToAnalyze)
     IN  \E okText \in Outcomes, okFeedback \in Outcomes :
           LET textFailed == transcribe /\ ~okText
               feedbackFailed == hasText /\ ~okFeedback
           IN  /\ countFaults((IF textFailed THEN 1 ELSE 0)
                              + (IF feedbackFailed THEN 1 ELSE 0))
               /\ responses' =
                    IF transcribe /\ okText
                    THEN writeTranscription(responses, call.responseId, textToAnalyze)
                    ELSE responses
               /\ feedback' =
                    IF hasText /\ okFeedback
                    THEN upsertFeedback(existingFeedback, call.responseId, analysis)
                    ELSE feedback
               /\ saveResponseReturns(
                    [op |-> "saveResponseWithFeedback",
                     success |-> hasText /\ okFeedback,
                     writeFailed |-> call.writeFailed \/ textFailed \/ feedbackFailed,
                     feedbackWrite |-> IF ~(hasText /\ okFeedback) THEN "none"
                                       ELSE IF existingFeedback # {} THEN "update"
                                       ELSE "insert"])
               /\ call' = IF hasNextQuestion(call.index, sessionQuestions)
                          THEN NoCall ELSE call
  /\ UNCHANGED <<interviews, questions, createResult>>

\* completeInterviewSession: completeInterview, whose update's error is not looked
\* at, then the rest of handleNextQuestion.
completeInterview ==
  /\ UNCHANGED sideVars
  /\ recorder' = unmountRecorder(recorder)
  /\ \E fires \in TrackEndOutcomes(recorder) :
       /\ videoBlob' = blobAfterUnmount("video", fires, videoBlob)
       /\ audioBlob' = blobAfterUnmount("audio", fires, audioBlob)
  /\ pc = "complete"
  /\ \E ok \in Outcomes :
       /\ interviews' = IF ok
                        THEN {IF r.id = interview THEN completeInterviewUpdate(r) ELSE r :
                                r \in interviews}
                        ELSE interviews
       /\ lastCall' = [op |-> "completeInterview", success |-> TRUE, writeFailed |-> ~ok,
                        feedbackWrite |-> "none"]
       /\ countFaults(IF ok THEN 0 ELSE 1)
  /\ toast' = "Interview completed"
  /\ isCompleted' = TRUE
  /\ isSubmitting' = FALSE
  /\ pc' = "idle"
  /\ call' = NoCall
  /\ UNCHANGED <<questions, responses, feedback, createResult, propVars,
                 currentQuestionIndex, responseType, textResponse, feedbackLoading>>

Next ==
  \/ createInterviewWithQuestions
  \/ \E i \in InterviewIds : ExternalAbandon(i)
  \/ \E i \in InterviewIds : OpenSession(i)
  \/ CloseSession
  \/ \E type \in ResponseTypes : setResponseType(type)
  \/ \E text \in Texts \cup {EmptyText} : setTextResponse(text)
  \/ setVideoBlob
  \/ setAudioBlob
  \/ handlePreviousQuestion
  \/ handleNextQuestion
  \/ uploadMedia
  \/ saveResponseWithFeedback
  \/ analyzeAndSaveFeedback
  \/ completeInterview

Spec == Init /\ [][Next]_vars

\* ------------------------------------------- the question generator alone
JobRoles == CatalogueRoles \cup InheritedNames \cup {"Chef"}
Industries == {NULL, "Tech"}
Difficulties == {NULL, "beginner", "intermediate", "advanced"}
\* The count a caller asks for; generateAndSaveQuestions passes its default, 5.
Counts == {5, 7}

\* generateInterviewQuestions({jobRole, industry, difficulty, count}): count is
\* not passed on, and the catch block calls generateDefaultQuestions again with
\* the same arguments, so what it throws is thrown again.
generateInterviewQuestionsCall(jobRole, industry, difficulty, count, rnd) ==
  /\ ~generated.called
  /\ LET result == generateDefaultQuestions(jobRole, industry, difficulty, rnd)
     IN  generated' = [called |-> TRUE, jobRole |-> jobRole, industry |-> industry,
                       difficulty |-> difficulty, count |-> count,
                       threw |-> result.threw, questions |-> result.questions]
  /\ UNCHANGED <<storeVars, sessionVars, faults, scored, serverCalls>>

GenNext ==
  /\ ~generated.called
  /\ \E jobRole \in JobRoles, industry \in Industries, difficulty \in Difficulties,
        count \in Counts, rnd \in Draws :
       generateInterviewQuestionsCall(jobRole, industry, difficulty, count, rnd)

GenSpec == Init /\ [][GenNext]_vars

\* ------------------------------------------------- the results page alone
\* confidence_score values, number | null: <<v>> for the number v / 10, and the
\* empty tuple for null.
Scores == {<<>>, <<0>>, <<5>>, <<9>>}
\* Feedback rows under one question of the results page.
MaxFeedbackRows == 2
ScoredQuestions == {1, 2}

RECURSIVE sumScores(_)
sumScores(scores) ==
  IF scores = <<>> THEN 0 ELSE Head(scores)[1] + sumScores(Tail(scores))

RECURSIVE flatten(_)
flatten(lists) ==
  IF lists = <<>> THEN <<>> ELSE Head(lists) \o flatten(Tail(lists))

\* `if (feedback.confidence_score)`: null and 0 are both falsy.
truthy(score) == score # <<>> /\ score[1] # 0

\* getOverallScore over the feedback of the questions (a list of scores for each
\* question): (totalScore / totalResponses) * 100 as the fraction num / den.
getOverallScore(questionFeedback) ==
  LET counted == SelectSeq(flatten(questionFeedback), truthy)
      totalScore == sumScores(counted)
      totalResponses == Len(counted)
  IN  IF totalResponses > 0
      THEN [num |-> totalScore * 10, den |-> totalResponses]
      ELSE [num |-> 0, den |-> 1]

FeedbackLists == UNION {[1..n -> Scores] : n \in 0..MaxFeedbackRows}

\* The results page is rendered for questions with this feedback.
InterviewResults(questionFeedback) ==
  /\ ~scored.called
  /\ scored' = [called |-> TRUE, questions |-> questionFeedback,
                score |-> getOverallScore(questionFeedback)]
  /\ UNCHANGED <<storeVars, sessionVars, faults, generated, serverCalls>>

ScoreNext ==
  /\ ~scored.called
  /\ \E n \in ScoredQuestions \cup {0} :
       \E questionFeedback \in [1..n -> FeedbackLists] :
         InterviewResults(questionFeedback)

ScoreSpec == Init /\ [][ScoreNext]_vars

\* ------------------------------- server actions called by several clients
\* The server actions are exported endpoints: a client calls them with any id,
\* and two calls run side by side, each parked at its awaits.  The store is the
\* one a successful createInterviewWithQuestions leaves, and it accepts every
\* write, except that it may reject the insert of a row for a question that does
\* not exist (the schema is not part of the source).
UnknownIds == {99}

ServerInit ==
  /\ interviews = {[id |-> 1, status |-> "in_progress", completed_at |-> NULL]}
  /\ questions = {[id |-> n, interview_id |-> 1, order_number |-> n] :
                    n \in DOMAIN generateInterviewQuestions}
  /\ responses = {}
  /\ feedback = {}
  /\ createResult = [called |-> TRUE, success |-> TRUE, interviewId |-> 1]
  /\ pc = "closed"
  /\ interview = NoId
  /\ sessionQuestions = <<>>
  /\ currentQuestionIndex = 0
  /\ responseType = "text"
  /\ textResponse = EmptyText
  /\ videoBlob = NULL
  /\ audioBlob = NULL
  /\ isSubmitting = FALSE
  /\ isCompleted = FALSE
  /\ feedbackLoading = FALSE
  /\ toast = "none"
  /\ call = NoCall
  /\ lastCall = NoResult
  /\ faults = 0
  /\ generated = NotGenerated
  /\ scored = NotScored
  /\ serverCalls = NoServerCalls
  /\ recorder = NoRecorder

serverFrame == <<createResult, sessionVars, faults, generated, scored>>

\* saveResponseWithFeedback up to its first await: the look-up of the response
\* of the question.
serverSelectResponse(c, questionId, type, text) ==
  /\ serverCalls[c].at = "idle"
  /\ serverCalls' =
       [serverCalls EXCEPT ![c] =
          [op |-> "saveResponseWithFeedback", at |-> "write", id |-> questionId,
           responseType |-> type,
           responseText |-> IF type = "text" THEN text ELSE NULL,
           mediaUrl |-> IF type = "text" THEN NULL ELSE publicUrl(type),
           existing |-> {r.id : r \in Single(ResponsesOf(questionId))},
           responseId |-> NoId, success |-> FALSE, wrote |-> FALSE]]
  /\ UNCHANGED <<interviews, questions, responses, feedback, serverFrame>>

\* saveResponseWithFeedback: the update of the row the look-up found, or the
\* insert of a new row.
serverWriteResponse(c) ==
  LET sc == serverCalls[c]
      existingResponse == {r \in responses : r.id \in sc.existing}
      questionExists == \E q \in questions : q.id = sc.id
  IN  /\ sc.at = "write"
      /\ \E accepted \in IF questionExists \/ sc.existing # {} THEN {TRUE} ELSE BOOLEAN :
           IF accepted
           THEN /\ responses' = upsertResponse(existingResponse, sc.id, sc.responseType,
                                               sc.responseText, sc.mediaUrl)
                /\ serverCalls' =
                     [serverCalls EXCEPT ![c].at = "analyze", ![c].wrote = TRUE,
                                         ![c].responseId =
                                           IF sc.existing # {}
                                           THEN CHOOSE id \in sc.existing : TRUE
                                           ELSE upsertResponseId({})]
           ELSE /\ serverCalls' = [serverCalls EXCEPT ![c].at = "returned",
                                                       ![c].success = FALSE]
                /\ UNCHANGED responses
      /\ UNCHANGED <<interviews, questions, feedback, serverFrame>>

\* analyzeAndSaveFeedback up to the look-up of the feedback of the response.
serverSelectFeedback(c) ==
  LET sc == serverCalls[c]
      transcribe == needsTranscription(sc.responseType, sc.responseText, sc.mediaUrl)
      textToAnalyze == IF transcribe THEN transcribeMedia(sc.mediaUrl)
                       ELSE sc.responseText
  IN  /\ sc.at = "analyze"
      /\ responses' = IF transcribe
                      THEN writeTranscription(responses, sc.responseId, textToAnalyze)
                      ELSE responses
      /\ serverCalls' =
           IF textToAnalyze \in {NULL, EmptyText}
           THEN [serverCalls EXCEPT ![c].at = "returned", ![c].success = FALSE]
           ELSE [serverCalls EXCEPT
                   ![c].at = "feedback",
                   ![c].existing = {f.id : f \in Single(FeedbackOf(sc.responseId))}]
      /\ UNCHANGED <<interviews, questions, feedback, serverFrame>>

\* analyzeAndSaveFeedback: the update or insert of the feedback, and the return
\* of saveResponseWithFeedback.
serverWriteFeedback(c) ==
  LET sc == serverCalls[c]
      existingFeedback == {f \in feedback : f.id \in sc.existing}
  IN  /\ sc.at = "feedback"
      /\ feedback' = upsertFeedback(existingFeedback, sc.responseId,
                                    analyzeResponse(sc.id, sc.responseText))
      /\ serverCalls' = [serverCalls EXCEPT ![c].at = "returned", ![c].success = TRUE]
      /\ UNCHANGED <<interviews, questions, responses, serverFrame>>

\* completeInterview(interviewId): the update by id, whose result is not looked at.
serverCompleteInterview(c, interviewId) ==
  /\ serverCalls[c].at = "idle"
  /\ interviews' = {IF r.id = interviewId THEN completeInterviewUpdate(r) ELSE r :
                      r \in interviews}
  /\ serverCalls' =
       [serverCalls EXCEPT ![c] =
          [NoServerCall EXCEPT !.op = "completeInterview", !.at = "returned",
                               !.id = interviewId, !.success = TRUE,
                               !.wrote = (\E r \in interviews : r.id = interviewId)]]
  /\ UNCHANGED <<questions, responses, feedback, serverFrame>>

ServerNext ==
  \/ \E c \in Callers, q \in {r.id : r \in questions} \cup UnknownIds,
        type \in ResponseTypes, text \in Texts :
       serverSelectResponse(c, q, type, text)
  \/ \E c \in Callers : serverWriteResponse(c)
  \/ \E c \in Callers : serverSelectFeedback(c)
  \/ \E c \in Callers : serverWriteFeedback(c)
  \/ \E c \in Callers, i \in InterviewIds \cup UnknownIds : serverCompleteInterview(c, i)

ServerSpec == ServerInit /\ [][ServerNext]_vars

\* ------------------------------- a user who keeps answering, no failures
\* The store holds one interview, with its questions or (after a failed insert
\* of the questions) without any, and from here on accepts every write and
\* upload.  The user opens the session and keeps entering answers and pressing
\* Next; every call the step awaits returns.
LiveInit ==
  /\ interviews = {[id |-> 1, status |-> "in_progress", completed_at |-> NULL]}
  /\ questions \in {{[id |-> n, interview_id |-> 1, order_number |-> n] :
                       n \in DOMAIN generateInterviewQuestions},
                    {}}
  /\ responses = {}
  /\ feedback = {}
  /\ createResult = [called |-> TRUE, success |-> questions # {},
                     interviewId |-> IF questions # {} THEN 1 ELSE NoId]
  /\ pc = "closed"
  /\ interview = NoId
  /\ sessionQuestions = <<>>
  /\ currentQuestionIndex = 0
  /\ responseType = "text"
  /\ textResponse = EmptyText
  /\ videoBlob = NULL
  /\ audioBlob = NULL
  /\ isSubmitting = FALSE
  /\ isCompleted = FALSE
  /\ feedbackLoading = FALSE
  /\ toast = "none"
  /\ call = NoCall
  /\ lastCall = NoResult
  /\ faults = MaxFaults
  /\ generated = NotGenerated
  /\ scored = NotScored
  /\ serverCalls = NoServerCalls
  /\ recorder = NoRecorder

\* The user enters a non-empty answer on the tab shown.
enterAnswer ==
  \/ \E text \in Texts : setTextResponse(text)
  \/ setVideoBlob
  \/ setAudioBlob

LiveNext ==
  \/ \E i \in InterviewIds : OpenSession(i)
  \/ \E type \in ResponseTypes : setResponseType(type)
  \/ enterAnswer
  \/ handleNextQuestion
  \/ uploadMedia
  \/ saveResponseWithFeedback
  \/ analyzeAndSaveFeedback
  \/ completeInterview

\* The user keeps entering answers, and presses Next whenever the button keeps
\* coming back enabled; the promises of the step settle.
LiveSpec ==
  /\ LiveInit
  /\ [][LiveNext]_vars
  /\ WF_vars(enterAnswer)
  /\ SF_vars(handleNextQuestion)
  /\ WF_vars(uploadMedia)
  /\ WF_vars(saveResponseWithFeedback)
  /\ WF_vars(analyzeAndSaveFeedback)
  /\ WF_vars(completeInterview)

\* --------------------------------------- the session with its recorders
\* getUserMedia of the startCamera / startMicrophone called by the mount effect
\* or by resetRecording settles: the stream is stored, or the error is caught.
startCamera(ok) ==
  /\ recorder.mounted # "none"
  /\ recorder.opening
  /\ recorder' = [recorder EXCEPT !.opening = FALSE, !.stream = @ \/ ok]
  /\ UNCHANGED <<recorderFrame, videoBlob, audioBlob>>

\* The Start Recording button, shown while nothing records or is recorded (the
\* user does not press it again while a retry is pending).
startRecording ==
  /\ recorder.mounted # "none"
  /\ ~recorder.isRecording /\ recorder.recordedBlob = NULL
  /\ recorder.retry = "no"
  /\ recorder' = startRecordingBody(recorder, displayedQuestion)
  /\ UNCHANGED <<recorderFrame, videoBlob, audioBlob>>

\* startCamera().then(...) of a startRecording that found no stream: startCamera
\* has caught a failure of getUserMedia, so its promise resolves either way and
\* the timer is set.
retryCameraSettles(ok) ==
  /\ recorder.retry = "camera"
  /\ recorder' = [recorder EXCEPT !.retry = "timer", !.stream = @ \/ ok]
  /\ UNCHANGED <<recorderFrame, videoBlob, audioBlob>>

\* The timer fires and calls startRecording again.
retryTimerFires ==
  /\ recorder.retry = "timer"
  /\ recorder' = startRecordingBody(recorder, displayedQuestion)
  /\ UNCHANGED <<recorderFrame, videoBlob, audioBlob>>

\* The same two steps of a retry whose instance has been unmounted: nothing
\* cancels them.  Whether its getUserMedia succeeded shows when the timer
\* fires: with a stream the instance starts recording, without one it calls
\* startCamera again.
zombieCameraSettles ==
  /\ "camera" \in recorder.zombie
  /\ recorder' = [recorder EXCEPT !.zombie = (@ \ {"camera"}) \cup {"timer"}]
  /\ UNCHANGED <<recorderFrame, videoBlob, audioBlob>>

zombieTimerFires(ok) ==
  /\ "timer" \in recorder.zombie
  /\ recorder' = [recorder EXCEPT
                    !.zombie = (@ \ {"timer"}) \cup (IF ok THEN {} ELSE {"camera"})]
  /\ UNCHANGED <<recorderFrame, videoBlob, audioBlob>>

\* The Stop Recording button: mediaRecorderRef.current.stop(), stopMediaTracks;
\* then mediaRecorder.onstop, dispatched before any other input is handled:
\* setRecordedBlob(blob), onRecordingComplete(blob), which is the session's
\* setVideoBlob or setAudioBlob.
stopRecording ==
  /\ recorder.mounted # "none"
  /\ recorder.isRecording
  /\ LET blob == recordedChunks(recorder.startedAt, displayedQuestion)
     IN  /\ recorder' = [recorder EXCEPT !.isRecording = FALSE,
                                         !.stream = FALSE,
                                         !.startedAt = 0,
                                         !.recordedBlob = blob]
         /\ videoBlob' = IF recorder.mounted = "video" THEN blob ELSE videoBlob
         /\ audioBlob' = IF recorder.mounted = "audio" THEN blob ELSE audioBlob
  /\ UNCHANGED recorderFrame

\* The Record Again button: setRecordedBlob(null), startCamera(); the session is
\* not told.
resetRecording ==
  /\ recorder.mounted # "none"
  /\ recorder.recordedBlob # NULL
  /\ recorder' = [recorder EXCEPT !.recordedBlob = NULL, !.opening = TRUE]
  /\ UNCHANGED <<recorderFrame, videoBlob, audioBlob>>

RecorderInit == LiveInit /\ questions # {}

RecorderNext ==
  \/ \E i \in InterviewIds : OpenSession(i)
  \/ \E type \in ResponseTypes : setResponseType(type)
  \/ handlePreviousQuestion
  \/ handleNextQuestion
  \/ uploadMedia
  \/ saveResponseWithFeedback
  \/ analyzeAndSaveFeedback
  \/ completeInterview
  \/ \E ok \in BOOLEAN : startCamera(ok)
  \/ startRecording
  \/ \E ok \in BOOLEAN : retryCameraSettles(ok)
  \/ retryTimerFires
  \/ zombieCameraSettles
  \/ \E ok \in BOOLEAN : zombieTimerFires(ok)
  \/ stopRecording
  \/ resetRecording

\* Promises settle and timers fire; whether getUserMedia
\* succeeds is up to the platform and the user.
RecorderSpec ==
  /\ RecorderInit
  /\ [][RecorderNext]_vars
  /\ WF_vars(\E ok \in BOOLEAN : startCamera(ok))
  /\ WF_vars(\E ok \in BOOLEAN : retryCameraSettles(ok))
  /\ WF_vars(retryTimerFires)
  /\ WF_vars(zombieCameraSettles)
  /\ WF_vars(\E ok \in BOOLEAN : zombieTimerFires(ok))
  /\ WF_vars(uploadMedia)
  /\ WF_vars(saveResponseWithFeedback)
  /\ WF_vars(analyzeAndSaveFeedback)
  /\ WF_vars(completeInterview)

\* ------------------------------------------------------------------ claims
\* The interview row of the session.
SessionRows == {r \in interviews : r.id = interview}

\* A step of handleNextQuestion is in flight.
inStep == pc \in {"upload", "save", "analyze", "complete"}

\* This transition is saveResponseWithFeedback returning to the session.
analyzeReturns == pc = "analyze" /\ pc' # "analyze"

saveReturns == (pc = "save" /\ pc' \notin {"save", "analyze"}) \/ analyzeReturns

\* This transition is the media upload failing.
uploadFails == pc = "upload" /\ pc' = "idle"

\* The step in flight is on the last question.
onLastQuestion == call.index = Len(sessionQuestions) - 1

\* C1: if the media upload errors or saveResponseWithFeedback returns
\* success:false during a handleNextQuestion step, currentQuestionIndex is not
\* changed, completeInterview is not called and the interview's status is not
\* changed.
C1_FailedStepDoesNotAdvance ==
  [][(uploadFails \/ (saveReturns /\ ~lastCall'.success))
       => /\ currentQuestionIndex' = currentQuestionIndex
          /\ pc' # "complete"
          /\ interviews' = interviews]_vars

\* C2: when handleNextQuestion runs on the last question and the step succeeds
\* (the save returns success and no write of the step fails), completeInterview is
\* called and leaves the interview's status completed with a non-null completed_at.
C2_LastQuestionCompletes ==
  [][/\ (saveReturns /\ onLastQuestion /\ lastCall'.success /\ ~lastCall'.writeFailed)
          => pc' = "complete"
     /\ (pc = "complete" /\ pc' = "idle" /\ lastCall.success /\ ~lastCall.writeFailed
           /\ ~lastCall'.writeFailed)
          => /\ SessionRows # {}
             /\ \A r \in interviews' :
                  r.id = interview => r.status = "completed" /\ r.completed_at # NULL]_vars

C2_Witness ==
  /\ pc = "idle" /\ isCompleted
  /\ lastCall.op = "completeInterview" /\ ~lastCall.writeFailed
  /\ \E r \in SessionRows : r.status = "completed" /\ r.completed_at # NULL
  /\ \A q \in DOMAIN sessionQuestions : ResponsesOf(sessionQuestions[q].id) # {}

\* C3 as stated: every run of handleNextQuestion on a question that is not the
\* last one, when it finishes, has increased currentQuestionIndex by exactly 1 and
\* has left the interview row alone.
C3_NonLastAlwaysAdvances ==
  [][(pc \in {"upload", "save", "analyze"} /\ pc' = "idle" /\ ~onLastQuestion)
       => /\ currentQuestionIndex' = currentQuestionIndex + 1
          /\ interviews' = interviews]_vars

\* C3 amended: a run of handleNextQuestion on a question that is not the last one
\* never calls completeInterview and never changes the interview row; when it
\* finishes it has increased currentQuestionIndex by exactly 1, unless the media
\* upload failed, and then currentQuestionIndex is unchanged.
C3_NonLastAdvancesUnlessUploadFails ==
  [][(inStep /\ ~onLastQuestion /\ pc' # pc)
       => /\ pc' # "complete"
          /\ interviews' = interviews
          /\ pc' = "idle" =>
               currentQuestionIndex' =
                 IF uploadFails THEN currentQuestionIndex ELSE currentQuestionIndex + 1]_vars

C3_Witness ==
  /\ pc = "idle" /\ currentQuestionIndex = 1
  /\ lastCall.op = "saveResponseWithFeedback" /\ lastCall.success
  /\ \E r \in SessionRows : r.status = "in_progress"

\* C4: after a saveResponseWithFeedback call has returned success, exactly one
\* Response row exists for its question, and the row holds the response_type and
\* media_url of the call and the response_text the call supplied.
C4_UpsertHoldsLatest ==
  [][(saveReturns /\ lastCall'.success)
       => LET rows == {r \in responses' : r.question_id = call.questionId}
          IN  /\ Cardinality(rows) = 1
              /\ \A r \in rows :
                   /\ r.response_type = call.responseType
                   /\ r.media_url = call.mediaUrl
                   /\ call.responseText # NULL => r.response_text = call.responseText]_vars

\* C5: no response ever has more than one Feedback row, and after every run of
\* analyzeAndSaveFeedback that returns success, the first or a later one for the
\* response id, exactly one Feedback row exists for that response.
C5_OneFeedbackPerResponse ==
  [][/\ \A r \in responses' :
          Cardinality({f \in feedback' : f.response_id = r.id}) <= 1
     /\ (analyzeReturns /\ lastCall'.success)
          => Cardinality({f \in feedback' : f.response_id = call.responseId}) = 1]_vars

C5_Witness ==
  /\ lastCall.op = "saveResponseWithFeedback" /\ lastCall.success
  /\ lastCall.feedbackWrite = "update"
  /\ \E r \in responses : Cardinality(FeedbackOf(r.id)) = 1

\* C6: in every state of the store, an interview's completed_at is non-null if
\* and only if its status is completed.
C6_CompletedAtIffCompleted ==
  \A r \in interviews : (r.completed_at # NULL) <=> (r.status = "completed")

C6_Witness ==
  /\ \E r \in interviews : r.status = "completed" /\ r.completed_at # NULL
  /\ lastCall.op = "completeInterview"

\* C7: once an interview's status is completed or abandoned, no step changes its
\* row (its status and completed_at) again.
C7_TerminalStatusIsFinal ==
  [][\A r \in interviews :
       r.status \in {"completed", "abandoned"} => r \in interviews']_vars

\* C8: after createInterviewWithQuestions has returned a failure, the store holds
\* no interview row without its question set.
C8_FailedCreateLeavesNoInterview ==
  (createResult.called /\ ~createResult.success)
    => \A r \in interviews : QuestionsOf(r.id) # <<>>

\* The index of the first question, in order_number order, without a Response.
FirstUnanswered(qs) ==
  CHOOSE n \in 0..Len(qs) :
    /\ n < Len(qs) => ResponsesOf(qs[n + 1].id) = {}
    /\ \A m \in 0..(n - 1) : ResponsesOf(qs[m + 1].id) # {}

\* C9: when the session of an in-progress interview is opened, the cursor starts
\* at the first question without a persisted Response (0 when there is none yet).
C9_ResumeAtFirstUnanswered ==
  [][(pc = "closed" /\ pc' = "idle" /\ ~isCompleted'
        /\ FirstUnanswered(sessionQuestions') < Len(sessionQuestions'))
       => currentQuestionIndex' = FirstUnanswered(sessionQuestions')]_vars

\* C10: whenever a storage write issued by a server action of the session has
\* failed, the action has returned success:false and the session has shown a
\* failure notification.
C10_WriteFailureIsReported ==
  lastCall.writeFailed
    => /\ ~lastCall.success
       /\ toast \in {"Failed to analyze your response", "Failed to save your response"}

\* This transition is completeInterviewSession returning to handleNextQuestion.
completeReturns == pc = "complete" /\ pc' # "complete"

\* C11: if the interview status update fails on the last question, the failure
\* is reported (a failure notification, and the session does not show the
\* interview as completed), and the Response and Feedback rows stay in the store.
C11_StatusUpdateFailureIsReported ==
  [][(completeReturns /\ lastCall'.writeFailed)
       => /\ ~isCompleted'
          /\ toast' # "Interview completed"
          /\ responses' = responses
          /\ feedback' = feedback]_vars

\* The tab the session shows has no content to submit.
emptySubmission ==
  \/ responseType = "text" /\ textResponse = EmptyText
  \/ responseType = "video" /\ videoBlob = NULL
  \/ responseType = "audio" /\ audioBlob = NULL

\* C12: while the content for the selected response type is empty or missing,
\* no step starts: nothing is uploaded, no server action is called and no
\* Response or Feedback row is written; and no step in flight carries an empty
\* text answer.
C12_EmptySubmissionIsRejected ==
  [][/\ (pc = "idle" /\ emptySubmission)
          => /\ pc' \in {"idle", "closed"}
             /\ call' = call
             /\ responses' = responses
             /\ feedback' = feedback
     /\ (inStep' /\ call'.responseType = "text") => call'.responseText # EmptyText
     /\ (inStep' /\ call'.responseType # "text" /\ pc = "idle") => pc' = "upload"]_vars

C12_Witness ==
  /\ pc = "idle" /\ ~isCompleted /\ hasCurrentQuestion
  /\ emptySubmission /\ responseType = "audio"
  /\ lastCall.op = "saveResponseWithFeedback"
  /\ responses # {}

\* C13: if the upload of a video or audio blob fails, handleNextQuestion's step
\* ends there: no Response row is inserted or updated, the cursor does not
\* advance, and the error notification is shown.
C13_UploadFailurePropagates ==
  [][(pc = "upload" /\ faults' > faults)
       => /\ pc' = "idle"
          /\ responses' = responses
          /\ feedback' = feedback
          /\ currentQuestionIndex' = currentQuestionIndex
          /\ toast' = "Failed to save your response"]_vars

C13_Witness ==
  /\ pc = "idle" /\ toast = "Failed to save your response"
  /\ responseType = "video" /\ videoBlob # NULL
  /\ faults > 0
  /\ responses = {}

\* C14: after a failed handleNextQuestion step (the upload failed, or
\* saveResponseWithFeedback returned success:false), the session still holds the
\* answer the user had entered, unchanged.
C14_FailedStepKeepsAnswer ==
  [][(uploadFails \/ (saveReturns /\ ~lastCall'.success))
       => answerVars' = answerVars]_vars

\* A handleNextQuestion step starts: the locals of a new step are taken.
startsStep ==
  /\ call' # call
  /\ call'.questionId # NoId /\ call'.responseId = NoId /\ call'.mediaUrl = NULL

\* C18: from the moment a handleNextQuestion step starts until it completes or
\* fails, isSubmitting is true, and no new step and no Previous move starts
\* while a step is in flight.
C18_StepsNeverOverlap ==
  [][/\ inStep' => isSubmitting'
     /\ startsStep => ~inStep
     /\ currentQuestionIndex' = currentQuestionIndex - 1 => ~inStep]_vars

C18_Witness ==
  /\ pc = "analyze" /\ isSubmitting
  /\ call.index = 1
  /\ ~emptySubmission

\* C15: for every jobRole, industry (or null) and difficulty (or null),
\* generateInterviewQuestions returns between 1 and 7 questions, each with a
\* non-empty question_text.
C15_OneToSevenQuestions ==
  generated.called
    => /\ ~generated.threw
       /\ Len(generated.questions) \in 1..7
       /\ \A n \in DOMAIN generated.questions :
            generated.questions[n].question_text # <<>>

\* C16: generateInterviewQuestions returns at most the requested count of
\* questions.
C16_AtMostCountQuestions ==
  generated.called => Len(generated.questions) <= generated.count

\* A score that is not null.
present(score) == score # <<>>

\* C17: getOverallScore is 100 times the mean of every non-null confidence_score
\* (a score of 0 counts), and 0 when no Feedback has a score; it lies in 0..100.
C17_OverallScoreIsMeanOfPresent ==
  scored.called
    => LET scores == SelectSeq(flatten(scored.questions), present)
       IN  /\ scores = <<>> => scored.score.num = 0
           /\ scores # <<>>
                => scored.score.num * Len(scores) = sumScores(scores) * 10 * scored.score.den
           /\ scored.score.num >= 0
           /\ scored.score.num <= 100 * scored.score.den

\* C19: completeInterview called with an interview id that does not exist, and
\* saveResponseWithFeedback called with a question id that does not exist, have
\* each returned success:false and written nothing.
C19_UnknownIdIsAnExplicitFailure ==
  \A c \in Callers :
    (serverCalls[c].at = "returned" /\ serverCalls[c].id \in UnknownIds)
      => ~serverCalls[c].success /\ ~serverCalls[c].wrote

\* C20: once the saveResponseWithFeedback calls that ran side by side have
\* returned, every question has at most one Response row and every Response at
\* most one Feedback row.
C20_InterleavedSavesKeepOneRow ==
  (\A c \in Callers : serverCalls[c].at \in {"idle", "returned"})
    => /\ \A q \in questions : Cardinality(ResponsesOf(q.id)) <= 1
       /\ \A r \in responses : Cardinality(FeedbackOf(r.id)) <= 1

\* C21: in every state of the store, every Feedback row belongs to a Response
\* row whose response_text is non-null.
C21_FeedbackOnlyForResponseWithText ==
  \A f \in feedback :
    \E r \in responses : r.id = f.response_id /\ r.response_text # NULL

\* C22: when analyzeAndSaveFeedback has run for a video or audio response with a
\* media URL and no supplied text and has written the Feedback row, the Response
\* row holds the transcribed text; for a response with supplied text the text of
\* the Response row is not replaced by a transcription.
C22_TranscriptionIsStoredBeforeFeedback ==
  [][analyzeReturns
       => LET transcribe == needsTranscription(call.responseType, call.responseText,
                                               call.mediaUrl)
              rows == {r \in responses' : r.id = call.responseId}
          IN  /\ (transcribe /\ feedback' # feedback)
                   => \A r \in rows : r.response_text = transcribeMedia(call.mediaUrl)
              /\ ~transcribe => responses' = responses]_vars

\* C24: an interview's status is completed only when every one of its questions
\* has a Response row.
C24_CompletedOnlyWhenAllAnswered ==
  \A r \in interviews :
    r.status = "completed"
      => \A q \in questions : q.interview_id = r.id => ResponsesOf(q.id) # {}

\* C25: when saveResponseWithFeedback returns success:false, the call has changed
\* neither the Response row nor the Feedback row of the question: its write of the
\* Response did not take effect, and its last stretch changes nothing.
C25_FailedSaveWritesNothing ==
  [][(saveReturns /\ ~lastCall'.success)
       => /\ responses' = responses
          /\ feedback' = feedback
          /\ pc = "analyze" => call.writeFailed]_vars

\* C26: while the session of an interview with at least one question is open,
\* 0 <= currentQuestionIndex < questions.length.
C26_CursorStaysInRange ==
  (pc # "closed" /\ Len(sessionQuestions) >= 1)
    => currentQuestionIndex >= 0 /\ currentQuestionIndex < Len(sessionQuestions)

C26_Witness ==
  /\ pc = "idle" /\ ~isCompleted
  /\ Len(sessionQuestions) >= 2
  /\ currentQuestionIndex = Len(sessionQuestions) - 1
  /\ lastCall.op = "saveResponseWithFeedback"

\* C29: when a handleNextQuestion step has finished, however it ended, both
\* isSubmitting and feedbackLoading are false.
C29_FlagsClearedAfterStep ==
  [][(inStep /\ ~inStep') => ~isSubmitting' /\ ~feedbackLoading']_vars

\* The catalogue questions of a call, before the difficulty is applied.
catalogueOf(jobRole, industry) ==
  LET all == baseQuestions(jobRole, industry) \o roleSpecificQuestions(jobRole)
  IN  {all[n] : n \in DOMAIN all}

advancedPhrase == <<"Provide", "an", "in-depth", "explanation", "of">>

\* The text starts with how, explain or describe, in any case.
startsWithLead(text) ==
  text # <<>> /\ Head(text) \in {"How", "how", "Explain", "explain", "Describe", "describe"}

\* `text` ends with the words `words`.
endsWith(text, words) ==
  /\ Len(text) >= Len(words)
  /\ SubSeq(text, Len(text) - Len(words) + 1, Len(text)) = words

\* C23: with difficulty "advanced", every question returned is a catalogue
\* question of its type with the same words after the first; if it is technical
\* and its text starts with how, explain or describe, that word is replaced by
\* "Provide an in-depth explanation of"; if it is of another type its text is the
\* original; and for "Software Engineer" every technical question starts with the
\* phrase.
C23_AdvancedRewritesLeadingWord ==
  (generated.called /\ ~generated.threw /\ generated.difficulty = "advanced")
    => \A n \in DOMAIN generated.questions :
         LET out == generated.questions[n]
         IN  /\ \E q \in catalogueOf(generated.jobRole, generated.industry) :
                  /\ out.question_type = q.question_type
                  /\ endsWith(out.question_text, Tail(q.question_text))
                  /\ (q.question_type = "technical" /\ startsWithLead(q.question_text))
                       => out.question_text = advancedPhrase \o Tail(q.question_text)
                  /\ q.question_type # "technical"
                       => out.question_text = q.question_text
             /\ (generated.jobRole = "Software Engineer" /\ out.question_type = "technical")
                  => SubSeq(out.question_text, 1, Len(advancedPhrase)) = advancedPhrase

C23_Witness ==
  /\ generated.called /\ generated.difficulty = "advanced"
  /\ generated.jobRole = "Software Engineer"
  /\ \E n \in DOMAIN generated.questions :
       /\ generated.questions[n].question_type = "technical"
       /\ SubSeq(generated.questions[n].question_text, 1, 5) = advancedPhrase
  /\ \E n \in DOMAIN generated.questions :
       /\ generated.questions[n].question_type = "behavioral"
       /\ Head(generated.questions[n].question_text) = "Describe"

\* C30: when storage and generation always succeed and the user keeps entering
\* an answer and pressing Next, the open session of an interview with at least one
\* question leads to the interview's status being completed; and an interview
\* without questions is never completed.
C30_AnsweringLeadsToCompleted ==
  /\ (pc # "closed" /\ Len(sessionQuestions) >= 1)
       ~> (\E r \in interviews : r.id = interview /\ r.status = "completed")
  /\ [](\A r \in interviews :
          (\A q \in questions : q.interview_id # r.id) => r.status # "completed")

C30_Witness ==
  /\ faults = MaxFaults /\ createResult.called
  /\ Len(sessionQuestions) >= 1
  /\ \E r \in SessionRows : r.status = "completed"
  /\ \A n \in DOMAIN sessionQuestions : ResponsesOf(sessionQuestions[n].id) # {}
  /\ \E r \in responses : r.response_type # "text"

\* C27: a video or audio blob of the session that Next would submit is the
\* recording the recorder shows, and it was recorded from start to stop while the
\* question now on display was on display.
C27_SubmittableBlobIsCurrentRecording ==
  (pc # "closed" /\ ~isCompleted /\ hasBlobToUpload) =>
     /\ recorder.mounted = responseType
     /\ recorder.recordedBlob = Blob
     /\ (IF responseType = "video" THEN videoBlob ELSE audioBlob) = Blob

retrying == recorder.retry # "no" \/ recorder.zombie # {}

\* C28: a startRecording that found no stream and scheduled a retry leads to a
\* state where no retry is pending (a recording has started, or it gave up).
C28_RetryEnds == retrying ~> ~retrying
====
